---- MODULE Spec2Model ----
(***************************************************************************)
(* A model of fetch.py: the Garmin SpO2 fetcher.  One process runs         *)
(* main(): init_api(), then spo2wellness(display_spo2(api)), then          *)
(* populateSpoList(api).  Remote services (Garmin, intervals.icu), the     *)
(* token store, the process environment and the sqlite file are the        *)
(* process's surroundings; what they answer is a nondeterministic choice.  *)
(***************************************************************************)
EXTENDS Bags, FiniteSets, Integers, Sequences, TLC

(***************************************************************************)
(* Bounds of the model.                                                    *)
(***************************************************************************)
\* the largest DAYS_TO_FETCH the configuration is drawn from
MaxLookback == 3
\* the longest wellnessEpochSPO2DataDTOList a day's payload carries
MaxRecs == 2
\* iterations of init_api's `while True` loop that are explored
MaxLoginAttempts == 2
\* midnights that may pass while the process runs
MaxTicks == 1
\* runs of the program over the same spo2.db3 that are explored
MaxRuns == 2

\* Python's None where the other values are strings (class names, messages,
\* environment values), and where they are structured values
None == "None"
PyNone == [ py |-> "None" ]
PyInt(n) == [ py |-> "int", v |-> n ]
PyDict(f) == [ py |-> "dict", items |-> f ]
PyList(s) == [ py |-> "list", items |-> s ]

(***************************************************************************)
(* safe_api_call (fetch.py 30-108).                                        *)
(*                                                                         *)
(* What the wrapped api_method does is a Behaviour: it returns a value,    *)
(* or raises.  A GarthHTTPError carries the status code of its response    *)
(* (NoStatus when it has no response) and a text, str(e).  The code looks  *)
(* at the text only through tests `"<substring>" in error_str`, so a text  *)
(* is modelled by the probed substrings that occur in it: the status codes *)
(* safe_api_call looks for, and the phrase init_api looks for.             *)
(***************************************************************************)
ProbedCodes == {400, 401, 403, 404, 429, 500, 503}
\* a status code the classifier has no branch for
OtherStatus == 418
StatusCodes == ProbedCodes \cup {OtherStatus}
\* getattr(getattr(e, "response", None), "status_code", None) is None
NoStatus == 0
ErrorTexts == [ codes : SUBSET ProbedCodes, phrases : SUBSET {"Too Many Requests"} ]
\* the text of an HTTP error as requests words it: its own status code only
PlainText(c) == [ codes |-> {c} \cap ProbedCodes, phrases |-> {} ]

\* exception classes the except clauses name, by class name; "Exception"
\* stands for any other subclass of Exception (ValueError, KeyError, ...)
OrdinaryExceptions ==
    { "FileNotFoundError",
      "GarminConnectAuthenticationError",
      "GarminConnectConnectionError",
      "GarminConnectTooManyRequestsError",
      "Exception" }
\* BaseException subclasses that are not Exception subclasses
BaseOnlyExceptions == { "KeyboardInterrupt", "SystemExit" }

HttpErrors(texts) ==
    [ exc : {"GarthHTTPError"}, status : StatusCodes \cup {NoStatus}, text : texts ]

Raises(classes) == [ exc : classes ]

Returns(values) == [ exc : {None}, value : values ]

\* the message of each branch, as the source spells it; {e} stands for the
\* interpolated text of the exception
Msg400 == "Endpoint not available (400 Bad Request) - Feature may not be enabled for your account"
Msg401 == "Authentication required (401 Unauthorized) - Please re-authenticate"
Msg403 == "Access denied (403 Forbidden) - Account may not have permission"
Msg404 == "Endpoint not found (404) - Feature may have been moved or removed"
Msg429 == "Rate limit exceeded (429) - Please wait before making more requests"
Msg500 == "Server error (500) - Garmin's servers are experiencing issues"
Msg503 == "Service unavailable (503) - Garmin's servers are temporarily unavailable"
MsgHttp == "HTTP error: {e}"
MsgNoTokens == "No valid tokens found. Please login with your email/password to create new tokens."
MsgAuth == "Authentication issue: {e}"
MsgConn == "Connection issue: {e}"
MsgTooMany == "Rate limit exceeded: {e}"
MsgUnexpected == "Unexpected error: {e}"

\* what a call of safe_api_call ends with: the returned triple, or the
\* exception that leaves it
Returned(success, result, msg) ==
    [ raised |-> None, success |-> success, result |-> result, error_msg |-> msg ]

Escapes(exc) ==
    [ raised |-> exc ]

\* the test `status_code == c or "c" in error_str`
Matches(e, c) == e.status = c \/ c \in e.text.codes

\* the if/elif chain of the GarthHTTPError handler
ClassifyHttp(e) ==
    IF Matches(e, 400) THEN Msg400
    ELSE IF Matches(e, 401) THEN Msg401
    ELSE IF Matches(e, 403) THEN Msg403
    ELSE IF Matches(e, 404) THEN Msg404
    ELSE IF Matches(e, 429) THEN Msg429
    ELSE IF Matches(e, 500) THEN Msg500
    ELSE IF Matches(e, 503) THEN Msg503
    ELSE MsgHttp

\* a faulty variant: no catch-all `except Exception` clause
SafeApiCall_NoCatchAll(b) ==
    IF b.exc = None THEN Returned(TRUE, b.value, None)
    ELSE IF b.exc = "GarthHTTPError" THEN Returned(FALSE, PyNone, ClassifyHttp(b))
    ELSE IF b.exc = "FileNotFoundError" THEN Returned(FALSE, PyNone, MsgNoTokens)
    ELSE IF b.exc = "GarminConnectAuthenticationError" THEN Returned(FALSE, PyNone, MsgAuth)
    ELSE IF b.exc = "GarminConnectConnectionError" THEN Returned(FALSE, PyNone, MsgConn)
    ELSE IF b.exc = "GarminConnectTooManyRequestsError" THEN Returned(FALSE, PyNone, MsgTooMany)
    ELSE Escapes(b.exc)

\* safe_api_call: the try and its except clauses, in order.  The last
\* clause is `except Exception`: KeyboardInterrupt and SystemExit are not
\* subclasses of Exception and leave the function.
SafeApiCall(b) ==
    IF b.exc = None THEN Returned(TRUE, b.value, None)
    ELSE IF b.exc = "GarthHTTPError" THEN Returned(FALSE, PyNone, ClassifyHttp(b))
    ELSE IF b.exc = "FileNotFoundError" THEN Returned(FALSE, PyNone, MsgNoTokens)
    ELSE IF b.exc = "GarminConnectAuthenticationError" THEN Returned(FALSE, PyNone, MsgAuth)
    ELSE IF b.exc = "GarminConnectConnectionError" THEN Returned(FALSE, PyNone, MsgConn)
    ELSE IF b.exc = "GarminConnectTooManyRequestsError" THEN Returned(FALSE, PyNone, MsgTooMany)
    ELSE IF b.exc \in BaseOnlyExceptions THEN Escapes(b.exc)
    ELSE Returned(FALSE, PyNone, MsgUnexpected)

(***************************************************************************)
(* Python values the code handles.                                         *)
(***************************************************************************)
\* a dict is a function from its keys; {} is the function with no key
EmptyDict == [k \in {} |-> PyNone]

\* d.get(k, default)
DictGet(d, k, default) == IF k \in DOMAIN d.items THEN d.items[k] ELSE default

\* truth value of an API result that is None or a dict
Truthy(d) == d.py = "dict" /\ DOMAIN d.items # {}

(***************************************************************************)
(* Timestamps (fetch.py 292, 295).  An epochTimestamp is a string, here a  *)
(* sequence of one-character strings.  rec["epochTimestamp"][:-2] drops    *)
(* the last two characters, datetime.fromisoformat parses the rest, and    *)
(* .timestamp() gives seconds since the epoch (the process's zone is UTC). *)
(***************************************************************************)
Digits == << "0", "1", "2", "3", "4", "5", "6", "7", "8", "9" >>

IsDigit(c) == \E i \in 1..10 : Digits[i] = c

DigitVal(c) == (CHOOSE i \in 1..10 : Digits[i] = c) - 1

\* a faulty variant: nothing is stripped
StripLastTwo_KeepAll(s) == s

\* s[:-2]
StripLastTwo(s) == IF Len(s) <= 2 THEN << >> ELSE SubSeq(s, 1, Len(s) - 2)

AllDigits(s, i, j) == \A k \in i..j : IsDigit(s[k])

RECURSIVE NumVal(_, _, _)
NumVal(s, i, j) == IF j < i THEN 0 ELSE 10 * NumVal(s, i, j - 1) + DigitVal(s[j])

IsLeap(y) == (y % 4 = 0 /\ y % 100 # 0) \/ y % 400 = 0

DaysInMonth(y, m) ==
    IF m = 2 THEN (IF IsLeap(y) THEN 29 ELSE 28)
    ELSE IF m \in {4, 6, 9, 11} THEN 30 ELSE 31

\* days from 1970-01-01 to the civil date y-m-d (proleptic Gregorian)
DaysFromCivil(y, m, d) ==
    LET yy  == IF m <= 2 THEN y - 1 ELSE y
        era == yy \div 400
        yoe == yy - era * 400
        mp  == (m + 9) % 12
        doy == (153 * mp + 2) \div 5 + d - 1
        doe == yoe * 365 + yoe \div 4 - yoe \div 100 + doy
    IN  era * 146097 + doe - 719468

\* the interpreters the program runs on (`Garmin | None` at line 125 needs
\* 3.10): datetime.fromisoformat reads the extended form on both, and from
\* 3.11 on the basic forms as well
Pythons == { "3.10", "3.11" }

\* the fields of a date and time, or ValueError when they are out of range
DateTimeOf(y, m, d, hh, mm, ss) ==
    IF /\ y >= 1
       /\ m \in 1..12
       /\ d \in 1..DaysInMonth(y, m)
       /\ hh \in 0..23
       /\ mm \in 0..59
       /\ ss \in 0..59
    THEN [ raised |-> None, year |-> y, month |-> m, day |-> d,
           hour |-> hh, minute |-> mm, second |-> ss ]
    ELSE [ raised |-> "ValueError" ]

\* the extended form YYYY-MM-DD?HH:MM:SS, any character between date and time
IsExtendedForm(s) ==
    /\ Len(s) = 19
    /\ AllDigits(s, 1, 4) /\ s[5] = "-" /\ AllDigits(s, 6, 7) /\ s[8] = "-"
    /\ AllDigits(s, 9, 10)
    /\ AllDigits(s, 12, 13) /\ s[14] = ":" /\ AllDigits(s, 15, 16) /\ s[17] = ":"
    /\ AllDigits(s, 18, 19)

\* thirteen digits: the basic form YYYYMMDD?HHMM, the ninth character being
\* the one between date and time
IsBasicForm(s) == Len(s) = 13 /\ AllDigits(s, 1, 13)

\* datetime.fromisoformat on interpreter py, for the strings of the model's
\* inputs: the extended form, thirteen digits, and strings of neither form,
\* which are rejected with ValueError
FromIsoFormat(py, s) ==
    IF IsExtendedForm(s)
    THEN DateTimeOf(NumVal(s, 1, 4), NumVal(s, 6, 7), NumVal(s, 9, 10),
                    NumVal(s, 12, 13), NumVal(s, 15, 16), NumVal(s, 18, 19))
    ELSE IF IsBasicForm(s) /\ py # "3.10"
    THEN DateTimeOf(NumVal(s, 1, 4), NumVal(s, 5, 6), NumVal(s, 7, 8),
                    NumVal(s, 10, 11), NumVal(s, 12, 13), 0)
    ELSE [ raised |-> "ValueError" ]

\* datetime.timestamp() of a parsed datetime
Timestamp(dt) ==
    DaysFromCivil(dt.year, dt.month, dt.day) * 86400
        + dt.hour * 3600 + dt.minute * 60 + dt.second

(***************************************************************************)
(* The spo2 table of spo2.db3 (fetch.py 281, 294-295, 303).  A table is a  *)
(* bag of rows <<timestamp, spo2_reading, reading_confidence>>.            *)
(***************************************************************************)
\* the table's schema is not in the source; the specification gives it
\* insert-if-absent on the full row: a uniqueness constraint over the
\* three columns, which is what OR IGNORE acts on
FullRowUnique == TRUE

\* lines 292 and 295, for one rec on interpreter py: the row that is
\* inserted, or the exception the parse raises
RowOf(py, rec) ==
    LET ts == FromIsoFormat(py, StripLastTwo(rec.epochTimestamp))
    IN  IF ts.raised # None
        THEN [ raised |-> ts.raised, row |-> << 0, rec.spo2Reading, rec.readingConfidence >> ]
        ELSE [ raised |-> None,
               row |-> << Timestamp(ts), rec.spo2Reading, rec.readingConfidence >> ]

\* a faulty variant: a plain INSERT
InsertOrIgnore_PlainInsert(table, row) == table (+) SetToBag({row})

\* INSERT OR IGNORE INTO spo2 VALUES (?, ?, ?)
InsertOrIgnore(table, row) ==
    IF FullRowUnique /\ BagIn(row, table) THEN table ELSE table (+) SetToBag({row})

\* SELECT COUNT(*) FROM spo2
RowCount(table) == BagCardinality(table)

(***************************************************************************)
(* The state.                                                              *)
(***************************************************************************)
VARIABLES
    pc,             \* where the process is
    exitCode,       \* the exit status, once pc = "exited"
    caught,         \* the except clause of __main__ that caught, if any
    exception,      \* the exception that ended the process, if any
    raisedIn,       \* the function that exception left
    environ,        \* os.environ: EMAIL and PASSWORD
    auth,           \* the auth module: EMAIL, PASSWORD, DAYS_TO_FETCH
    python,         \* the interpreter the process runs on
    clock,          \* the calendar day it is now
    ticks,          \* midnights passed since the process started
    today,          \* module global (line 26)
    startfrom,      \* module global (line 27)
    tokenstore,     \* the token directory: "absent", "stale" or "valid"
    api,            \* main's api: None or the client init_api returned
    attempts,       \* iterations of init_api's loop begun
    creds,          \* init_api's email, password
    session,        \* what the login of init_api's Garmin(email, password) has reached
    done,           \* the calls the process has made so far in this run
    spo2Requests,   \* the days get_spo2_data was asked for
    summary,        \* display_spo2's success, summary, error_msg
    spo2_avgsleep,  \* display_spo2's local, then spo2wellness's argument
    wellness,       \* spo2wellness's local
    icu,            \* the wellness record intervals.icu was last sent
    reqday,         \* populateSpoList's cursor
    db,             \* the sqlite connection: "closed" or "open"
    txn,            \* the spo2 table as the open connection sees it
    committed,      \* the spo2 table in the file spo2.db3
    commits,        \* db.commit() calls made on spo2.db3 so far
    requested,      \* the days get_sleep_data was asked for in this run
    printed,        \* the last "Got ..." or "Could not fetch ..." line
    garmin,         \* the sleep data Garmin answers with, day by day
    runs,           \* runs of the program so far, this one included
    callArg,        \* safe_api_call taken alone: what api_method does
    callOut         \* safe_api_call taken alone: how the call ended

procV == << pc, exitCode, caught, exception, raisedIn >>
inputV == << environ, auth, python >>
clockV == << clock, ticks >>
globalV == << today, startfrom >>
loginV == << tokenstore, api, attempts, creds, session, done >>
publishV == << spo2Requests, summary, spo2_avgsleep, wellness, icu >>
ingestV == << reqday, db, txn, committed, commits, requested, printed, garmin >>
callV == << callArg, callOut >>
vars == << procV, inputV, clockV, globalV, loginV, publishV, ingestV, runs, callV >>

(***************************************************************************)
(* The inputs the model draws from.                                        *)
(***************************************************************************)
\* os.getenv of a variable that is not set
Unset == "<unset>"
\* a local name no assignment has bound
Unbound == "<unbound>"
NoCreds == [ raised |-> None, email |-> Unbound, password |-> Unbound ]

\* datetime.date.today() when the process starts, as days since the epoch
StartDay == DaysFromCivil(2024, 1, 15)

Chars(date, time, tail) == date \o << "T" >> \o time \o tail
SampleDate == << "2", "0", "2", "4", "-", "0", "1", "-", "1", "5" >>
Minute(m) == << "0", "3", ":", "1", m, ":", "0", "0" >>
\* 1705288320000 followed by two digits: epoch milliseconds, not ISO text
EpochDigits ==
    << "1", "7", "0", "5", "2", "8", "8", "3", "2", "0", "0", "0", "0", "0", "0" >>

Rec(ts, reading, confidence) ==
    [ epochTimestamp |-> ts, spo2Reading |-> reading, readingConfidence |-> confidence ]


\* the sub-records payloads are built from, in a ring: five distinct
\* readings, after the first one that differs from it in the stripped
\* characters only, and one whose timestamp is not ISO text
SampleRing ==
    << Rec(Chars(SampleDate, Minute("2"), << ".", "0" >>), 95, 2),
       Rec(Chars(SampleDate, Minute("2"), << ".", "5" >>), 95, 2),
       Rec(Chars(SampleDate, Minute("3"), << ".", "0" >>), 96, 2),
       Rec(Chars(SampleDate, Minute("4"), << ".", "0" >>), 94, 3),
       Rec(Chars(SampleDate, Minute("5"), << ".", "0" >>), 97, 2),
       Rec(Chars(SampleDate, Minute("6"), << ".", "0" >>), 93, 2),
       Rec(EpochDigits, 95, 2) >>

SampleRecords == { SampleRing[i] : i \in 1..Len(SampleRing) }

\* timestamps one at a time.  As Garmin sends them: these dates and times
\* of day as ISO text, followed by two characters
IsoDates == { << 2024, 1, 15 >>, << 2024, 2, 29 >>, << 1970, 1, 1 >>, << 2023, 12, 31 >> }
IsoTimes == { << 3, 12, 0 >>, << 0, 0, 0 >>, << 23, 59, 59 >> }
IsoTails == { << ".", "0" >>, << ".", "5" >>, << "0", "0" >> }
DigitChar(d) == Digits[d + 1]
TwoDigits(n) == << DigitChar(n \div 10), DigitChar(n % 10) >>
FourDigits(n) == TwoDigits(n \div 100) \o TwoDigits(n % 100)
\* date.isoformat() and time.isoformat() joined by "T"
IsoText(date, time) ==
    FourDigits(date[1]) \o << "-" >> \o TwoDigits(date[2]) \o << "-" >> \o TwoDigits(date[3])
        \o << "T" >> \o TwoDigits(time[1]) \o << ":" >> \o TwoDigits(time[2])
        \o << ":" >> \o TwoDigits(time[3])
IsoStamps == { IsoText(d, t) \o tail : d \in IsoDates, t \in IsoTimes, tail \in IsoTails }

\* and as thirteen digits of epoch milliseconds followed by two digits: the
\* first ten digits are the seconds, taken in groups.  1705288320 is
\* 2024-01-15T03:12:00Z; the seconds stay below 2^31.
EpochHeads == { << "1", "7", "0", "5", "2", "8" >>, << "2", "0", "3", "4", "0", "6" >>,
                << "2", "0", "2", "4", "0", "1" >>, << "1", "9", "9", "9", "1", "2" >>,
                << "2", "0", "2", "4", "0", "2" >> }
EpochMids == { << "8", "3" >>, << "1", "6" >>, << "2", "9" >>, << "3", "1" >> }
EpochEnds == { << "2", "0" >>, << "2", "3" >>, << "8", "0" >>, << "0", "3" >> }
EpochMillis == { << "0", "0", "0" >>, << "9", "0", "7" >>, << "9", "0", "8" >>, << "1", "2", "0" >> }
EpochTails == { << "0", "0" >>, << "3", "7" >> }
EpochStamps ==
    { h \o m \o e \o ms \o tail :
        h \in EpochHeads, m \in EpochMids, e \in EpochEnds, ms \in EpochMillis,
        tail \in EpochTails }

StampRecords == { Rec(ts, 95, 2) : ts \in IsoStamps \cup EpochStamps }

\* RowOf on the records of the model, evaluated once
SampleRows ==
    [ py \in Pythons |-> [ rec \in SampleRecords \cup StampRecords |-> RowOf(py, rec) ] ]

\* the `for rec in sleep_wellness` loop (lines 291-295): the table after
\* it, and the exception that ended it early, if any
RECURSIVE InsertRecords(_, _)
InsertRecords(table, recs) ==
    IF recs = << >> THEN [ table |-> table, raised |-> None ]
    ELSE IF SampleRows[python][Head(recs)].raised # None
         THEN [ table |-> table, raised |-> "Exception" ]
         ELSE InsertRecords(InsertOrIgnore(table, SampleRows[python][Head(recs)].row), Tail(recs))

\* the lists a payload may carry: up to MaxRecs neighbours of the ring
RecLists ==
    { [ i \in 1..n |-> SampleRing[((k + i - 2) % Len(SampleRing)) + 1] ] :
        k \in 1..Len(SampleRing), n \in 0..MaxRecs }

SleepKey == "wellnessEpochSPO2DataDTOList"
\* what get_sleep_data may return
SleepPayloads ==
    { PyNone, PyDict(EmptyDict),
      PyDict([ dailySleepDTO |-> PyNone ]),
      PyDict([ wellnessEpochSPO2DataDTOList |-> PyNone ]) }
    \cup { PyDict([ wellnessEpochSPO2DataDTOList |-> PyList(l) ]) : l \in RecLists }

\* what get_spo2_data may return
SummaryPayloads ==
    { PyNone, PyDict(EmptyDict),
      PyDict([ calendarDate |-> PyNone ]),
      PyDict([ calendarDate |-> PyNone, avgSleepSpO2 |-> PyInt(95) ]) }

\* the ways a Garmin data call fails in the runs explored
DataFaults ==
    { [ exc |-> "GarthHTTPError", status |-> 404, text |-> PlainText(404) ] }
    \cup Raises({ "GarminConnectConnectionError", "Exception", "KeyboardInterrupt" })

\* every way a wrapped operation can end, for safe_api_call taken alone
CallBehaviours ==
    Returns({ PyNone, PyDict(EmptyDict), PyDict([ avgSleepSpO2 |-> PyInt(95) ]) })
    \cup HttpErrors(ErrorTexts)
    \cup Raises(OrdinaryExceptions \cup BaseOnlyExceptions)

\* a faulty variant: no clause for KeyboardInterrupt, the interpreter ends
\* the process with a traceback
TopLevel_NoInterruptClause(exc) ==
    IF exc = None THEN [ caught |-> None, status |-> 0 ]
    ELSE IF exc \in { "KeyboardInterrupt", "SystemExit" } THEN [ caught |-> None, status |-> 1 ]
    ELSE [ caught |-> "Exception", status |-> 0 ]

(***************************************************************************)
(* __main__ (fetch.py 321-327): how the process ends.                      *)
(***************************************************************************)
\* a faulty variant: no `except Exception` clause, the traceback ends the process
TopLevel_Uncaught(exc) ==
    IF exc = None THEN [ caught |-> None, status |-> 0 ]
    ELSE IF exc = "KeyboardInterrupt" THEN [ caught |-> "KeyboardInterrupt", status |-> 0 ]
    ELSE [ caught |-> None, status |-> 1 ]

\* exc leaves main(), or main() returns (exc = None).  sys.exit(1) raises
\* SystemExit, which neither clause catches; after a clause has printed,
\* the script ends and the status is 0.
TopLevel(exc) ==
    IF exc = None THEN [ caught |-> None, status |-> 0 ]
    ELSE IF exc = "KeyboardInterrupt" THEN [ caught |-> "KeyboardInterrupt", status |-> 0 ]
    ELSE IF exc = "SystemExit" THEN [ caught |-> None, status |-> 1 ]
    ELSE [ caught |-> "Exception", status |-> 0 ]

\* the process ends: exc left the function `where`, or main returned
Exit(exc, where) ==
    /\ pc' = "exited"
    /\ exitCode' = TopLevel(exc).status
    /\ caught' = TopLevel(exc).caught
    /\ exception' = exc
    /\ raisedIn' = where

(***************************************************************************)
(* get_credentials (fetch.py 115-122).                                     *)
(***************************************************************************)
\* `not os.getenv(name)`: the variable is unset or empty
NotGetenv(env, name) == env[name] = Unset \/ env[name] = ""

\* email and password are bound only under their `if`; `return email,
\* password` reads both, and reading an unbound local raises
GetCredentials(env, cfg) ==
    LET email == IF NotGetenv(env, "EMAIL") THEN cfg.EMAIL ELSE Unbound
        password == IF NotGetenv(env, "PASSWORD") THEN cfg.PASSWORD ELSE Unbound
    IN  IF email = Unbound \/ password = Unbound
        THEN [ raised |-> "UnboundLocalError", email |-> Unbound, password |-> Unbound ]
        ELSE [ raised |-> None, email |-> email, password |-> password ]

(***************************************************************************)
(* init_api (fetch.py 125-230): which way each step leaves.                *)
(***************************************************************************)
\* a faulty variant: the stored session is not trusted, credentials are asked for
TokenLoginOutcome_AlwaysFresh(b) ==
    IF b.exc \in { None, "FileNotFoundError", "GarthHTTPError",
                   "GarminConnectAuthenticationError", "GarminConnectConnectionError" }
    THEN "credentials"
    ELSE "raise"

\* lines 148-161: garmin.login(tokenstore) returned, or raised
TokenLoginOutcome(b) ==
    IF b.exc = None THEN "return"
    ELSE IF b.exc \in { "FileNotFoundError", "GarthHTTPError",
                        "GarminConnectAuthenticationError", "GarminConnectConnectionError" }
    THEN "credentials"
    ELSE "raise"

\* a faulty variant: connection errors are not caught
LoopHandler_ConnectionRaises(exc) ==
    IF exc = "GarminConnectAuthenticationError" THEN "continue" ELSE "raise"

\* a faulty variant: a rejected login is not tried again
LoopHandler_NoRetry(exc) == IF exc = "GarminConnectAuthenticationError" THEN "return_none" ELSE "raise"

\* lines 212-230: the except clauses of the loop's try
LoopHandler(exc) ==
    IF exc = "GarminConnectAuthenticationError" THEN "continue"
    ELSE IF exc \in { "FileNotFoundError", "GarthHTTPError",
                      "GarminConnectConnectionError", "requests.HTTPError" }
    THEN "return_none"
    ELSE IF exc = "KeyboardInterrupt" THEN "return_none"
    ELSE "raise"

\* a faulty variant: every failed resume is answered by another attempt
ResumeOutcome_RetryAll(b) == IF b.exc = None THEN "dump" ELSE "continue"

\* a faulty variant: a failed resume goes on to the dump
ResumeOutcome_AlwaysDump(b) == "dump"

\* lines 181-204: resume_login returned, or raised
ResumeOutcome(b) ==
    IF b.exc = None THEN "dump"
    ELSE IF b.exc = "GarthHTTPError"
    THEN IF 429 \in b.text.codes /\ "Too Many Requests" \in b.text.phrases THEN "exit"
         ELSE IF 401 \in b.text.codes \/ 403 \in b.text.codes THEN "continue"
         ELSE "exit"
    ELSE IF b.exc = "GarthException" THEN "continue"
    ELSE LoopHandler(b.exc)

\* a faulty variant: main goes on without a client
MainOutcome_NoCheck(a) == "publish"

\* lines 311-313: `if not api: return`
MainOutcome(a) == IF a = None THEN "return" ELSE "publish"

(***************************************************************************)
(* What the surroundings may answer at each step of init_api.              *)
(***************************************************************************)
TokenLoginBehaviours(store) ==
    IF store = "valid"
    THEN Returns({ PyNone })
         \cup Raises({ "GarminConnectConnectionError", "KeyboardInterrupt", "Exception" })
    ELSE IF store = "stale"
    THEN Raises({ "GarthHTTPError", "GarminConnectAuthenticationError",
                  "GarminConnectConnectionError", "KeyboardInterrupt", "Exception" })
    ELSE Raises({ "FileNotFoundError", "KeyboardInterrupt" })

LoginBehaviours ==
    Returns({ [ result1 |-> None, result2 |-> None ],
              [ result1 |-> "needs_mfa", result2 |-> "client_state" ] })
    \cup Raises({ "GarminConnectAuthenticationError", "GarminConnectConnectionError",
                  "GarthHTTPError", "requests.HTTPError", "FileNotFoundError",
                  "KeyboardInterrupt", "Exception" })

InputBehaviours ==
    Returns({ "123456" }) \cup Raises({ "KeyboardInterrupt", "Exception" })

\* the texts of an HTTP error on resume: the codes lines 188 and 192 look
\* for, and one they do not
ResumeTexts == [ codes : SUBSET { 401, 403, 429, 500 }, phrases : SUBSET {"Too Many Requests"} ]

ResumeBehaviours ==
    Returns({ PyNone })
    \cup [ exc : {"GarthHTTPError"}, text : ResumeTexts ]
    \cup Raises({ "GarthException", "GarminConnectAuthenticationError",
                  "GarminConnectConnectionError", "requests.HTTPError",
                  "KeyboardInterrupt", "Exception" })

DumpBehaviours ==
    Returns({ PyNone }) \cup Raises({ "FileNotFoundError", "KeyboardInterrupt", "Exception" })

(***************************************************************************)
(* init_api, step by step.                                                 *)
(***************************************************************************)
\* a faulty variant: `continue` resumes at the MFA prompt
LoopTop_MfaPrompt == "mfa_input"

\* lines 164-167: `continue` starts the next iteration of `while True`,
\* which begins with get_credentials()
LoopTop == "get_credentials"

\* the loop's try is left by `continue`, by `return None`, by an exception
\* no clause catches, or by sys.exit(1); init_api's locals end with it
LoopControl(o, exc) ==
    CASE o = "continue" ->
            /\ pc' = LoopTop
            /\ UNCHANGED << exitCode, caught, exception, raisedIn, api, attempts, creds >>
      [] o = "return_none" ->
            /\ pc' = "main"
            /\ api' = None
            /\ attempts' = 0
            /\ creds' = NoCreds
            /\ UNCHANGED << exitCode, caught, exception, raisedIn >>
      [] o = "raise" ->
            /\ Exit(exc, "init_api")
            /\ UNCHANGED << api, attempts, creds >>
      [] o = "exit" ->
            /\ Exit("SystemExit", "init_api")
            /\ UNCHANGED << api, attempts, creds >>

\* lines 147-161: login with the stored tokens
InitApiTokenLogin(b) ==
    /\ pc = "init_api"
    /\ done' = done \cup { "login(tokenstore)" }
    /\ CASE TokenLoginOutcome(b) = "return" ->
               /\ pc' = "main"
               /\ api' = "Garmin(tokenstore)"
               /\ UNCHANGED << exitCode, caught, exception, raisedIn >>
         [] TokenLoginOutcome(b) = "credentials" ->
               /\ pc' = "get_credentials"
               /\ UNCHANGED << exitCode, caught, exception, raisedIn, api >>
         [] TokenLoginOutcome(b) = "raise" ->
               /\ Exit(b.exc, "init_api")
               /\ UNCHANGED api
    /\ UNCHANGED << tokenstore, attempts, creds, session >>
    /\ UNCHANGED << inputV, clockV, globalV, publishV, ingestV, runs, callV >>

\* lines 164-167: a loop iteration begins with get_credentials()
GetCredentialsStep ==
    /\ pc = "get_credentials"
    /\ attempts < MaxLoginAttempts
    /\ done' = done \cup { "get_credentials" }
    /\ LET r == GetCredentials(environ, auth)
       IN  IF r.raised = None
           THEN /\ pc' = "login"
                /\ creds' = r
                /\ attempts' = attempts + 1
                /\ UNCHANGED << exitCode, caught, exception, raisedIn, api >>
           ELSE LoopControl(LoopHandler(r.raised), r.raised)
    /\ UNCHANGED << tokenstore, session >>
    /\ UNCHANGED << inputV, clockV, globalV, publishV, ingestV, runs, callV >>

\* lines 169-175: Garmin(email, password).login()
LoginStep(b) ==
    /\ pc = "login"
    /\ done' = done \cup { "login(credentials)" }
    /\ IF b.exc = None
       THEN /\ pc' = IF b.value.result1 = "needs_mfa" THEN "mfa_input" ELSE "dump"
            /\ UNCHANGED << exitCode, caught, exception, raisedIn, api, attempts, creds >>
       ELSE LoopControl(LoopHandler(b.exc), b.exc)
    /\ session' = IF b.exc # None THEN None
                  ELSE IF b.value.result1 = "needs_mfa" THEN "needs_mfa" ELSE "authenticated"
    /\ UNCHANGED tokenstore
    /\ UNCHANGED << inputV, clockV, globalV, publishV, ingestV, runs, callV >>

\* lines 176-179: input("Please enter your MFA code: ")
MfaInput(b) ==
    /\ pc = "mfa_input"
    /\ done' = done \cup { "input" }
    /\ IF b.exc = None
       THEN /\ pc' = "resume_login"
            /\ UNCHANGED << exitCode, caught, exception, raisedIn, api, attempts, creds >>
       ELSE LoopControl(LoopHandler(b.exc), b.exc)
    /\ UNCHANGED << tokenstore, session >>
    /\ UNCHANGED << inputV, clockV, globalV, publishV, ingestV, runs, callV >>

\* lines 181-204: garmin.resume_login(result2, mfa_code)
ResumeLogin(b) ==
    /\ pc = "resume_login"
    /\ done' = done \cup { "resume_login" }
    /\ IF ResumeOutcome(b) = "dump"
       THEN /\ pc' = "dump"
            /\ UNCHANGED << exitCode, caught, exception, raisedIn, api, attempts, creds >>
       ELSE LoopControl(ResumeOutcome(b), b.exc)
    /\ session' = IF b.exc = None THEN "authenticated" ELSE session
    /\ UNCHANGED tokenstore
    /\ UNCHANGED << inputV, clockV, globalV, publishV, ingestV, runs, callV >>

\* lines 206-210: garmin.garth.dump(tokenstore), then return garmin.  A
\* dump that raises has written nothing, or part of the files.
DumpTokens(b) ==
    /\ pc = "dump"
    /\ IF b.exc = None
       THEN /\ tokenstore' = IF session = "authenticated" THEN "valid" ELSE "stale"
            /\ done' = done \cup { "dump" }
            /\ pc' = "main"
            /\ api' = "Garmin(credentials)"
            /\ attempts' = 0
            /\ creds' = NoCreds
            /\ UNCHANGED << exitCode, caught, exception, raisedIn >>
       ELSE /\ LoopControl(LoopHandler(b.exc), b.exc)
            /\ tokenstore' \in { tokenstore, "stale" }
            /\ UNCHANGED done
    /\ UNCHANGED session
    /\ UNCHANGED << inputV, clockV, globalV, publishV, ingestV, runs, callV >>

(***************************************************************************)
(* main (fetch.py 307-318).                                                *)
(***************************************************************************)
\* lines 309-313: init_api has returned
MainCheck ==
    /\ pc = "main"
    /\ IF MainOutcome(api) = "return"
       THEN Exit(None, None)
       ELSE /\ pc' = "display_spo2"
            /\ UNCHANGED << exitCode, caught, exception, raisedIn >>
    /\ UNCHANGED << inputV, clockV, globalV, loginV, publishV, ingestV, runs, callV >>

(***************************************************************************)
(* display_spo2 and spo2wellness (fetch.py 233-247, 264-274).              *)
(***************************************************************************)
SummaryBehaviours == Returns(SummaryPayloads) \cup DataFaults

WellnessBehaviours == Returns({ PyNone }) \cup Raises({ "Exception", "KeyboardInterrupt" })

NotCalled == [ raised |-> "<not called>" ]
NoCallArg == [ exc |-> None, value |-> PyNone ]
UnboundValue == [ py |-> "unbound" ]

\* lines 237-244: spo2_avgsleep is assigned in the first branch only
DisplayValue(r) ==
    IF r.success /\ Truthy(r.result)
    THEN DictGet(r.result, "avgSleepSpO2", PyInt(0))
    ELSE UnboundValue

\* display_spo2(api): the fetch of today's summary, and lines 246-247
DisplaySpo2(b) ==
    /\ pc = "display_spo2"
    /\ spo2Requests' = Append(spo2Requests, today)
    /\ done' = done \cup { "get_spo2_data" }
    /\ LET r == SafeApiCall(b)
       IN  IF r.raised # None
           THEN /\ Exit(r.raised, "display_spo2")
                /\ UNCHANGED << summary, spo2_avgsleep >>
           ELSE /\ summary' = r
                /\ spo2_avgsleep' = DisplayValue(r)
                /\ IF DisplayValue(r) = UnboundValue
                   THEN Exit("UnboundLocalError", "display_spo2")
                   ELSE /\ pc' = "spo2wellness"
                        /\ UNCHANGED << exitCode, caught, exception, raisedIn >>
    /\ UNCHANGED << wellness, icu >>
    /\ UNCHANGED << tokenstore, api, attempts, creds, session >>
    /\ UNCHANGED << inputV, clockV, globalV, ingestV, runs, callV >>

\* lines 266-272: the wellness record of datetime.date.today() is read and
\* its spO2 set
Spo2WellnessGet(b) ==
    /\ pc = "spo2wellness"
    /\ done' = done \cup { "wellness" }
    /\ IF b.exc = None
       THEN /\ wellness' = [ py |-> "wellness", id |-> clock, spO2 |-> spo2_avgsleep ]
            /\ pc' = "wellness_put"
            /\ UNCHANGED << exitCode, caught, exception, raisedIn >>
       ELSE /\ Exit(b.exc, "spo2wellness")
            /\ UNCHANGED wellness
    /\ UNCHANGED << spo2Requests, summary, spo2_avgsleep, icu >>
    /\ UNCHANGED << tokenstore, api, attempts, creds, session >>
    /\ UNCHANGED << inputV, clockV, globalV, ingestV, runs, callV >>

\* lines 273-274: svc.wellness_put(wellness)
Spo2WellnessPut(b) ==
    /\ pc = "wellness_put"
    /\ done' = done \cup { "wellness_put" }
    /\ IF b.exc = None
       THEN /\ icu' = wellness
            /\ pc' = "populateSpoList"
            /\ UNCHANGED << exitCode, caught, exception, raisedIn >>
       ELSE /\ Exit(b.exc, "spo2wellness")
            /\ UNCHANGED icu
    /\ UNCHANGED << spo2Requests, summary, spo2_avgsleep, wellness >>
    /\ UNCHANGED << tokenstore, api, attempts, creds, session >>
    /\ UNCHANGED << inputV, clockV, globalV, ingestV, runs, callV >>

\* midnight passes.  The clock is read when the module is loaded and in
\* spo2wellness, so later midnights change nothing the process sees.
Tick ==
    /\ ticks < MaxTicks
    /\ pc \in { "init_api", "get_credentials", "login", "mfa_input", "resume_login",
                "dump", "main", "display_spo2", "spo2wellness" }
    /\ clock' = clock + 1
    /\ ticks' = ticks + 1
    /\ UNCHANGED << procV, inputV, globalV, loginV, publishV, ingestV, runs, callV >>

(***************************************************************************)
(* populateSpoList (fetch.py 278-304).                                     *)
(***************************************************************************)
SleepBehaviours == Returns(SleepPayloads) \cup DataFaults

\* the answers of get_sleep_data explored in whole runs of the program: no
\* data, two readings, a reading that cannot be parsed, not found, and an
\* interrupt
RunSleepBehaviours ==
    Returns({ PyNone,
              PyDict([ wellnessEpochSPO2DataDTOList |->
                         PyList(<< SampleRing[3], SampleRing[4] >>) ]),
              PyDict([ wellnessEpochSPO2DataDTOList |-> PyList(<< SampleRing[7] >>) ]) })
    \cup { [ exc |-> "GarthHTTPError", status |-> 404, text |-> PlainText(404) ] }
    \cup Raises({ "KeyboardInterrupt" })

OpenBehaviours == Returns({ PyNone }) \cup Raises({ "Exception" })

GotLine(n) == [ text |-> "Got {} records.", n |-> n, msg |-> None ]
FailLine(m) == [ text |-> "Could not fetch daily stats: {}", n |-> 0, msg |-> m ]
NoLine == [ text |-> "", n |-> 0, msg |-> None ]

\* Garmin's answer for a day is not fixed in advance
Unscripted == [ exc |-> "<any>" ]

\* a faulty variant: the cursor is advanced on the success branch only
PopulateStep_SuccessOnly(success) == IF success THEN 1 ELSE 0

\* lines 297-302: reqday += datetime.timedelta(days=1), in both branches
PopulateStep(success) == IF success THEN 1 ELSE 1

\* a faulty variant: a day that cannot be fetched ends the loop
PopulateIteration_FailureRaises(table, r) ==
    IF r.success /\ Truthy(r.result)
    THEN LET sleep_wellness == DictGet(r.result, SleepKey, PyDict(EmptyDict))
             recs == IF sleep_wellness.py = "list" THEN sleep_wellness.items ELSE << >>
             ins == InsertRecords(table, recs)
         IN  IF sleep_wellness.py = "None"
             THEN [ raised |-> "Exception", table |-> table, line |-> NoLine, step |-> 0 ]
             ELSE IF ins.raised # None
             THEN [ raised |-> ins.raised, table |-> ins.table, line |-> NoLine, step |-> 0 ]
             ELSE [ raised |-> None, table |-> ins.table, line |-> GotLine(Len(recs)),
                    step |-> PopulateStep(r.success) ]
    ELSE IF ~ r.success
    THEN [ raised |-> "Exception", table |-> table, line |-> NoLine, step |-> 0 ]
    ELSE [ raised |-> None, table |-> table, line |-> NoLine,
           step |-> PopulateStep(r.success) ]

\* lines 285-302, one iteration on the result r of safe_api_call: the
\* table after it, what was printed, how far the cursor moves, and the
\* exception that ended it, if any
PopulateIteration(table, r) ==
    IF r.success /\ Truthy(r.result)
    THEN LET sleep_wellness == DictGet(r.result, SleepKey, PyDict(EmptyDict))
             recs == IF sleep_wellness.py = "list" THEN sleep_wellness.items ELSE << >>
             ins == InsertRecords(table, recs)
         IN  IF sleep_wellness.py = "None"
             THEN [ raised |-> "Exception", table |-> table, line |-> NoLine, step |-> 0 ]
             ELSE IF ins.raised # None
             THEN [ raised |-> ins.raised, table |-> ins.table, line |-> NoLine, step |-> 0 ]
             ELSE [ raised |-> None, table |-> ins.table, line |-> GotLine(Len(recs)),
                    step |-> PopulateStep(r.success) ]
    ELSE IF ~ r.success
    THEN [ raised |-> None, table |-> table, line |-> FailLine(r.error_msg),
           step |-> PopulateStep(r.success) ]
    ELSE [ raised |-> None, table |-> table, line |-> NoLine,
           step |-> PopulateStep(r.success) ]

\* lines 280-281: reqday = startfrom; db = sqlite3.connect("spo2.db3")
PopulateOpen(b) ==
    /\ pc = "populateSpoList"
    /\ reqday' = startfrom
    /\ done' = done \cup { "connect" }
    /\ IF b.exc = None
       THEN /\ db' = "open"
            /\ txn' = committed
            /\ pc' = "populate_loop"
            /\ UNCHANGED << exitCode, caught, exception, raisedIn >>
       ELSE /\ Exit(b.exc, "populateSpoList")
            /\ UNCHANGED << db, txn >>
    /\ UNCHANGED << committed, commits, requested, printed, garmin >>
    /\ UNCHANGED << tokenstore, api, attempts, creds, session >>
    /\ UNCHANGED << inputV, clockV, globalV, publishV, runs, callV >>

\* lines 282-302: one iteration of `while reqday <= today`, Garmin
\* answering b.  An exception ends the process with the connection
\* uncommitted: what it inserted is rolled back.
PopulateDay(b) ==
    /\ pc = "populate_loop"
    /\ reqday <= today
    /\ garmin[reqday] \in { Unscripted, b }
    /\ requested' = Append(requested, reqday)
    /\ done' = done \cup { "get_sleep_data" }
    /\ LET r == SafeApiCall(b)
       IN  IF r.raised # None
           THEN /\ Exit(r.raised, "populateSpoList")
                /\ db' = "closed"
                /\ txn' = committed
                /\ UNCHANGED << reqday, printed >>
           ELSE LET it == PopulateIteration(txn, r)
                IN  IF it.raised # None
                    THEN /\ Exit(it.raised, "populateSpoList")
                         /\ db' = "closed"
                         /\ txn' = committed
                         /\ UNCHANGED << reqday, printed >>
                    ELSE /\ txn' = it.table
                         /\ printed' = IF it.line = NoLine THEN printed ELSE it.line
                         /\ reqday' = reqday + it.step
                         /\ UNCHANGED << procV, db >>
    /\ UNCHANGED << committed, commits, garmin >>
    /\ UNCHANGED << tokenstore, api, attempts, creds, session >>
    /\ UNCHANGED << inputV, clockV, globalV, publishV, runs, callV >>

\* a faulty variant: the commit does not wait for the end of the range
PopulateFinish_AnyDay ==
    /\ pc = "populate_loop"
    /\ committed' = txn
    /\ commits' = commits + 1
    /\ done' = done \cup { "commit" }
    /\ db' = "closed"
    /\ Exit(None, None)
    /\ UNCHANGED << reqday, txn, requested, printed, garmin >>
    /\ UNCHANGED << tokenstore, api, attempts, creds, session >>
    /\ UNCHANGED << inputV, clockV, globalV, publishV, runs, callV >>

\* lines 303-304 and the return of main: db.commit(); db.close()
PopulateFinish ==
    /\ pc = "populate_loop"
    /\ reqday > today
    /\ committed' = txn
    /\ commits' = commits + 1
    /\ done' = done \cup { "commit" }
    /\ db' = "closed"
    /\ Exit(None, None)
    /\ UNCHANGED << reqday, txn, requested, printed, garmin >>
    /\ UNCHANGED << tokenstore, api, attempts, creds, session >>
    /\ UNCHANGED << inputV, clockV, globalV, publishV, runs, callV >>

\* the program is run again on the same day, over the same spo2.db3, and
\* reaches populateSpoList again
Rerun ==
    /\ pc = "exited"
    /\ runs < MaxRuns
    /\ runs' = runs + 1
    /\ pc' = "populateSpoList"
    /\ exitCode' = 0
    /\ caught' = None
    /\ exception' = None
    /\ raisedIn' = None
    /\ requested' = << >>
    /\ printed' = NoLine
    /\ done' = done \ { "connect", "get_sleep_data", "commit" }
    /\ UNCHANGED << reqday, db, txn, committed, commits, garmin >>
    /\ UNCHANGED << tokenstore, api, attempts, creds, session >>
    /\ UNCHANGED << inputV, clockV, globalV, publishV, callV >>

(***************************************************************************)
(* safe_api_call taken alone.                                              *)
(***************************************************************************)
SafeApiCallStep ==
    /\ pc = "safe_api_call"
    /\ callOut' = SafeApiCall(callArg)
    /\ pc' = "called"
    /\ UNCHANGED << exitCode, caught, exception, raisedIn, callArg >>
    /\ UNCHANGED << inputV, clockV, globalV, loginV, publishV, ingestV, runs >>

(***************************************************************************)
(* The specifications.                                                     *)
(***************************************************************************)
\* the process when `python fetch.py` starts (lines 26-27 have run)
FreshProcess ==
    /\ exitCode = 0
    /\ caught = None
    /\ exception = None
    /\ raisedIn = None
    /\ clock = StartDay
    /\ ticks = 0
    /\ today = clock
    /\ startfrom = today - auth.DAYS_TO_FETCH
    /\ runs = 1
    /\ callOut = NotCalled

\* nothing of init_api has run
FreshLogin ==
    /\ api = None
    /\ attempts = 0
    /\ creds = NoCreds
    /\ session = None
    /\ done = {}

\* nothing of display_spo2 and spo2wellness has run
FreshPublish ==
    /\ spo2Requests = << >>
    /\ summary = NotCalled
    /\ spo2_avgsleep = UnboundValue
    /\ wellness = PyNone
    /\ icu = PyNone

\* Garmin's answers are not fixed in advance
AnyAnswer == garmin = [ d \in startfrom..today |-> Unscripted ]

\* nothing of populateSpoList has run, and the spo2 table holds no row
FreshIngest ==
    /\ reqday = startfrom
    /\ db = "closed"
    /\ txn = EmptyBag
    /\ committed = EmptyBag
    /\ commits = 0
    /\ requested = << >>
    /\ printed = NoLine

Init ==
    /\ pc = "init_api"
    /\ environ \in [ EMAIL : { Unset, "env@example.org" }, PASSWORD : { Unset, "envpw" } ]
    /\ auth \in [ EMAIL : { "me@example.org" }, PASSWORD : { "secret" },
                  DAYS_TO_FETCH : 0..MaxLookback ]
    /\ python \in Pythons
    /\ tokenstore \in { "absent", "stale", "valid" }
    /\ callArg = NoCallArg
    /\ FreshProcess /\ FreshLogin /\ FreshPublish /\ FreshIngest /\ AnyAnswer

Next ==
    \/ \E b \in TokenLoginBehaviours(tokenstore) : InitApiTokenLogin(b)
    \/ GetCredentialsStep
    \/ \E b \in LoginBehaviours : LoginStep(b)
    \/ \E b \in InputBehaviours : MfaInput(b)
    \/ \E b \in ResumeBehaviours : ResumeLogin(b)
    \/ \E b \in DumpBehaviours : DumpTokens(b)
    \/ MainCheck
    \/ \E b \in SummaryBehaviours : DisplaySpo2(b)
    \/ \E b \in WellnessBehaviours : Spo2WellnessGet(b)
    \/ \E b \in WellnessBehaviours : Spo2WellnessPut(b)
    \/ Tick
    \/ \E b \in OpenBehaviours : PopulateOpen(b)
    \/ \E b \in RunSleepBehaviours : PopulateDay(b)
    \/ PopulateFinish

Spec == Init /\ [][Next]_vars

\* safe_api_call on every way the wrapped operation can end
InitCall ==
    /\ pc = "safe_api_call"
    /\ callArg \in CallBehaviours
    /\ environ = [ EMAIL |-> Unset, PASSWORD |-> Unset ]
    /\ auth = [ EMAIL |-> "me@example.org", PASSWORD |-> "secret", DAYS_TO_FETCH |-> 0 ]
    /\ python = "3.11"
    /\ tokenstore = "valid"
    /\ FreshProcess /\ FreshLogin /\ FreshPublish /\ FreshIngest /\ AnyAnswer

NextCall == SafeApiCallStep

SpecCall == InitCall /\ [][NextCall]_vars

\* get_credentials on every environment and configuration
InitCred ==
    /\ pc = "get_credentials"
    /\ environ \in [ EMAIL : { Unset, "", "env@example.org", "other@example.org" },
                     PASSWORD : { Unset, "", "envpw", "otherpw" } ]
    /\ auth \in [ EMAIL : { "me@example.org", "you@example.org" },
                  PASSWORD : { "secret", "hunter2" },
                  DAYS_TO_FETCH : { 0 } ]
    /\ python = "3.11"
    /\ tokenstore = "absent"
    /\ api = None
    /\ attempts = 0
    /\ creds = NoCreds
    /\ session = None
    /\ done = { "login(tokenstore)" }
    /\ callArg = NoCallArg
    /\ FreshProcess /\ FreshPublish /\ FreshIngest /\ AnyAnswer

NextCred == GetCredentialsStep

SpecCred == InitCred /\ [][NextCred]_vars

\* the process at the call of populateSpoList: it has logged in with the
\* stored tokens and pushed today's value
AtPopulate ==
    /\ pc = "populateSpoList"
    /\ environ = [ EMAIL |-> Unset, PASSWORD |-> Unset ]
    /\ auth \in [ EMAIL : { "me@example.org" }, PASSWORD : { "secret" },
                  DAYS_TO_FETCH : 0..MaxLookback ]
    /\ tokenstore = "valid"
    /\ api = "Garmin(tokenstore)"
    /\ attempts = 0
    /\ creds = NoCreds
    /\ session = None
    /\ done = { "login(tokenstore)", "get_spo2_data", "wellness", "wellness_put" }
    /\ callArg = NoCallArg
    /\ FreshProcess /\ FreshIngest
    /\ spo2Requests = << today >>
    /\ summary = Returned(TRUE, PyDict([ calendarDate |-> PyNone, avgSleepSpO2 |-> PyInt(95) ]), None)
    /\ spo2_avgsleep = PyInt(95)
    /\ wellness = [ py |-> "wellness", id |-> today, spO2 |-> PyInt(95) ]
    /\ icu = wellness

\* populateSpoList, run after run over the same file, Garmin's answers not
\* fixed in advance
InitIngest == AtPopulate /\ AnyAnswer /\ python \in Pythons

NextIngest ==
    \/ \E b \in OpenBehaviours : PopulateOpen(b)
    \/ \E b \in RunSleepBehaviours : PopulateDay(b)
    \/ PopulateFinish
    \/ Rerun

SpecIngest == InitIngest /\ [][NextIngest]_vars

\* one run of populateSpoList
NextBackfill ==
    \/ \E b \in OpenBehaviours : PopulateOpen(b)
    \/ \E b \in SleepBehaviours : PopulateDay(b)
    \/ PopulateFinish

\* with weak fairness: the process is single-threaded and every call is
\* blocking, so it is never suspended for ever
FairBackfill == InitIngest /\ [][NextBackfill]_vars /\ WF_vars(NextBackfill)

\* what a day's answer is fixed to when Garmin's data does not change from
\* run to run: no data, not found, or two readings that are neighbours in
\* the ring of samples
TwoReadings(k) ==
    [ exc |-> None,
      value |-> PyDict([ wellnessEpochSPO2DataDTOList |->
                           PyList(<< SampleRing[k], SampleRing[k + 1] >>) ]) ]
NotFound == [ exc |-> "GarthHTTPError", status |-> 404, text |-> PlainText(404) ]
\* where in the ring the pairs start: a reading given twice, two pairs
\* with nothing in common, and a pair that shares a reading with the second
ScriptStarts == { 1, 2, 4, 5 }
Scripts == { TwoReadings(k) : k \in ScriptStarts } \cup { NotFound, [ exc |-> None, value |-> PyNone ] }

\* populateSpoList, run after run, over data that does not change; the
\* timestamps of the scripts read alike on every interpreter
InitReplay == AtPopulate /\ garmin \in [ startfrom..today -> Scripts ] /\ python = "3.11"

NextReplay ==
    \/ \E b \in OpenBehaviours : PopulateOpen(b)
    \/ \E b \in Scripts : PopulateDay(b)
    \/ PopulateFinish
    \/ Rerun

SpecReplay == InitReplay /\ [][NextReplay]_vars

\* one day's answer with one reading in it
OneReading(rec) ==
    [ exc |-> None, value |-> PyDict([ wellnessEpochSPO2DataDTOList |-> PyList(<< rec >>) ]) ]
StampScripts == { OneReading(rec) : rec \in StampRecords }

\* populateSpoList over today alone, Garmin answering with one reading: the
\* conversion of line 292 and 295 on one timestamp after the other
InitStamp ==
    /\ AtPopulate
    /\ auth.DAYS_TO_FETCH = 0
    /\ garmin \in [ startfrom..today -> StampScripts ]
    /\ python \in Pythons

NextStamp ==
    \/ \E b \in OpenBehaviours : PopulateOpen(b)
    \/ \E b \in StampScripts : PopulateDay(b)
    \/ PopulateFinish

SpecStamp == InitStamp /\ [][NextStamp]_vars

(***************************************************************************)
(* Properties of safe_api_call, checked under SpecCall.                    *)
(***************************************************************************)
\* the triple of a call that returned value
IsSuccessTriple(out, value) ==
    /\ out.raised = None
    /\ out.success
    /\ out.result = value
    /\ out.error_msg = None

\* the triple of a call that raised
IsFailureTriple(out) ==
    /\ out.raised = None
    /\ ~ out.success
    /\ out.result = PyNone
    /\ out.error_msg \notin { None, "" }

\* C1, as stated: whatever the wrapped operation does, an interrupt or an
\* exit signal included, safe_api_call returns (True, result, None) when it
\* returned and (False, None, non-empty message) when it raised, and
\* nothing escapes.
C1_EveryFaultContained ==
    pc = "called" =>
        IF callArg.exc = None
        THEN IsSuccessTriple(callOut, callArg.value)
        ELSE IsFailureTriple(callOut)

\* C1, amended: the triple is returned when the operation returns or raises
\* an exception derived from Exception; a KeyboardInterrupt or SystemExit
\* raised inside the operation is not caught and leaves safe_api_call.
C1_OrdinaryFaultsContained ==
    pc = "called" =>
        IF callArg.exc = None
        THEN IsSuccessTriple(callOut, callArg.value)
        ELSE IF callArg.exc \in BaseOnlyExceptions
        THEN callOut = Escapes(callArg.exc)
        ELSE IsFailureTriple(callOut)

\* an exception no handler names has been turned into the catch-all triple
C1_Witness ==
    /\ pc = "called"
    /\ callArg.exc = "Exception"
    /\ callOut = Returned(FALSE, PyNone, MsgUnexpected)

\* the category the specification maps a status code to
CategoryOf(status) ==
    CASE status = 400 -> Msg400
      [] status = 401 -> Msg401
      [] status = 403 -> Msg403
      [] status = 404 -> Msg404
      [] status = 429 -> Msg429
      [] status = 500 -> Msg500
      [] status = 503 -> Msg503
      [] OTHER -> MsgHttp

\* C2: an HTTP error that carries a status code is classified by that code
\* alone, whatever its text: success is false and the category is the one
\* mapped from the code, the generic HTTP category for an unlisted code.
C2_StatusDecidesCategory ==
    (pc = "called" /\ callArg.exc = "GarthHTTPError" /\ callArg.status # NoStatus) =>
        /\ IsFailureTriple(callOut)
        /\ callOut.error_msg = CategoryOf(callArg.status)

(***************************************************************************)
(* Properties of populateSpoList.                                          *)
(***************************************************************************)
\* no row is in the table twice
NoRowTwice(table) == \A row \in BagToSet(table) : CopiesIn(row, table) = 1

\* C3: ingestion is idempotent.  Over data that does not change, a run of
\* populateSpoList that follows a committed run commits a table with as
\* many rows as it found, and no (timestamp, spo2_reading,
\* reading_confidence) triple is ever in the table twice.  Checked under
\* SpecReplay.
C3_IngestIdempotent ==
    /\ [](NoRowTwice(txn) /\ NoRowTwice(committed))
    /\ [][ (PopulateFinish /\ commits >= 1) =>
               RowCount(committed') = RowCount(committed) ]_vars

\* a second run has fetched two readings again and committed, and the
\* table holds rows
C3_Witness ==
    /\ pc = "exited"
    /\ runs = 2
    /\ commits = 2
    /\ "commit" \in done
    /\ printed = GotLine(2)
    /\ RowCount(committed) > 0

\* an answer of get_sleep_data that is one of: success with records that
\* parse, success with an empty payload, a classified failure
ListedOutcome(b) ==
    IF b.exc # None
    THEN b.exc \in OrdinaryExceptions \cup { "GarthHTTPError" }
    ELSE \/ ~ Truthy(b.value)
         \/ SleepKey \notin DOMAIN b.value.items
         \/ /\ b.value.items[SleepKey].py = "list"
            /\ \A i \in DOMAIN b.value.items[SleepKey].items :
                   SampleRows[python][b.value.items[SleepKey].items[i]].raised = None

\* the days requested so far are the first days of the range, in order
RequestedInOrder ==
    /\ Len(requested) <= auth.DAYS_TO_FETCH + 1
    /\ \A i \in DOMAIN requested : requested[i] = today - auth.DAYS_TO_FETCH + (i - 1)
    /\ pc = "populate_loop" => reqday = today - auth.DAYS_TO_FETCH + Len(requested)
    /\ (pc = "exited" /\ "commit" \in done) => Len(requested) = auth.DAYS_TO_FETCH + 1

\* whatever listed outcome the day under the cursor has, the iteration
\* raises nothing and moves the cursor by exactly one day
StepsOneDay ==
    (pc = "populate_loop" /\ reqday <= today) =>
        \A b \in SleepBehaviours :
            ListedOutcome(b) =>
                LET r == SafeApiCall(b)
                IN  /\ r.raised = None
                    /\ LET it == PopulateIteration(txn, r)
                       IN  it.raised = None /\ it.step = 1

\* C4: for a lookback of N days populateSpoList requests exactly the N+1
\* days today-N .. today, each once and in ascending order, and then
\* terminates; whatever listed outcome a day has (records, empty payload,
\* classified failure), the cursor moves by exactly one day per iteration.
\* Checked under FairBackfill.
C4_EveryDayOnce ==
    /\ [](RequestedInOrder /\ StepsOneDay)
    /\ (pc = "populate_loop") ~> (pc = "exited")

\* a run over at least three days has requested them all and committed,
\* the last day having failed with not-found
C4_Witness ==
    /\ pc = "exited"
    /\ "commit" \in done
    /\ auth.DAYS_TO_FETCH >= 2
    /\ Len(requested) = auth.DAYS_TO_FETCH + 1
    /\ printed = FailLine(Msg404)

\* the rows of the readings Garmin holds for day d
RowsOfDay(d) ==
    IF garmin[d] \in { TwoReadings(k) : k \in ScriptStarts }
    THEN LET recs == garmin[d].value.items[SleepKey].items
         IN  { SampleRows[python][recs[i]].row : i \in DOMAIN recs }
    ELSE { }

\* two days of the range return 2 sub-records each, four different
\* readings in all, and a third day returns a classified not-found error
TwoDaysOfReadingsOneNotFound ==
    \E d1, d2, d3 \in startfrom..today :
        /\ d1 < d2
        /\ Cardinality(RowsOfDay(d1) \cup RowsOfDay(d2)) = 4
        /\ garmin[d3] = NotFound

\* the first run, on an empty table, has ended after opening the database
\* and requesting a day
EndOfFirstBackfill ==
    /\ pc = "exited"
    /\ runs = 1
    /\ requested # << >>

\* the table holds four rows and the run completed with exit code 0
FourRowsExitZero ==
    /\ exception = None
    /\ "commit" \in done
    /\ exitCode = 0
    /\ RowCount(committed) = 4

\* C10, as stated: with a lookback of 3 days (DAYS_TO_FETCH = 3), two days
\* returning 2 sub-records each and one day returning not-found, starting
\* from an empty table, the final row count is 4 and the exit code is 0.
C10_ThreeDayLookback ==
    (EndOfFirstBackfill /\ auth.DAYS_TO_FETCH = 3 /\ TwoDaysOfReadingsOneNotFound)
        => FourRowsExitZero

\* C10, amended: the range has three days when the lookback is 2
\* (DAYS_TO_FETCH = 2, the days today-2 .. today); then two days returning
\* 2 sub-records each and one day returning not-found, starting from an
\* empty table, end with 4 rows and exit code 0.  Checked under SpecReplay.
C10_ThreeDayRange ==
    (EndOfFirstBackfill /\ auth.DAYS_TO_FETCH = 2 /\ TwoDaysOfReadingsOneNotFound)
        => FourRowsExitZero

\* such a run has ended with four rows
C10_Witness ==
    /\ EndOfFirstBackfill
    /\ auth.DAYS_TO_FETCH = 2
    /\ TwoDaysOfReadingsOneNotFound
    /\ FourRowsExitZero

(***************************************************************************)
(* Properties of whole runs, checked under Spec.                           *)
(***************************************************************************)
\* the steps of the credential path of init_api
CredentialSteps == { "get_credentials", "login(credentials)", "input", "resume_login", "dump" }

\* C5: when Garmin accepts the stored session, init_api returns a client
\* built from it, leaves the token store as it is, and no step of the
\* credential path (get_credentials, login with email and password, the
\* MFA prompt, the resume, the token dump) runs in that run.
C5_StoredSessionReused ==
    /\ [](api = "Garmin(tokenstore)" =>
              /\ done \cap CredentialSteps = { }
              /\ "login(tokenstore)" \in done
              /\ attempts = 0
              /\ creds = NoCreds)
    /\ [][ \A b \in Returns({ PyNone }) :
               InitApiTokenLogin(b) =>
                   /\ pc' = "main"
                   /\ api' = "Garmin(tokenstore)"
                   /\ tokenstore' = tokenstore ]_vars

\* a run on the stored session has gone through to the commit
C5_Witness ==
    /\ pc = "exited"
    /\ api = "Garmin(tokenstore)"
    /\ "commit" \in done

\* today's summary could not be fetched, or is empty, or has no average
FallbackCase ==
    /\ "get_spo2_data" \in done
    /\ summary # NotCalled
    /\ \/ ~ summary.success
       \/ ~ Truthy(summary.result)
       \/ "avgSleepSpO2" \notin DOMAIN summary.result.items

\* C6: if the fetch of today's summary fails with a classified failure, or
\* returns an empty summary, or one without avgSleepSpO2, display_spo2
\* returns 0, the run does not end at this step, and the wellness update
\* that spo2wellness submits carries spO2 = 0.
C6_ZeroFallback ==
    FallbackCase =>
        /\ spo2_avgsleep = PyInt(0)
        /\ ~ (pc = "exited" /\ raisedIn = "display_spo2")
        /\ wellness # PyNone => wellness.spO2 = PyInt(0)

\* C7, as stated: the exit status is 0 exactly when the run completes
\* gracefully or is cancelled by the user, 1 when the MFA resume fails
\* fatally, and non-zero whenever another exception reaches the top-level
\* handler.
C7_NonZeroOnFailure ==
    pc = "exited" =>
        /\ exitCode = 0 <=> exception \in { None, "KeyboardInterrupt" }
        /\ exception = "SystemExit" => exitCode = 1
        /\ caught = "Exception" => exitCode # 0

\* C7, amended: the exit status is 1 exactly when the MFA resume fails
\* fatally (sys.exit(1) in init_api); it is 0 otherwise: when the run
\* completes gracefully, when the user cancels, and also when another
\* exception reaches the top-level handler, which prints it and lets the
\* script end.
C7_ZeroUnlessMfaFatal ==
    pc = "exited" =>
        /\ exitCode \in { 0, 1 }
        /\ exitCode = 1 <=> exception = "SystemExit"
        /\ exception = "SystemExit" => (raisedIn = "init_api" /\ "resume_login" \in done)
        /\ caught = "Exception" => exitCode = 0

\* the push to intervals.icu has raised, the top-level handler has caught
\* the exception, and the status is 0
C7_Witness ==
    /\ pc = "exited"
    /\ caught = "Exception"
    /\ exception = "Exception"
    /\ raisedIn = "spo2wellness"
    /\ exitCode = 0

\* the calls that fetch or push data, and the database calls
DataSteps == { "get_spo2_data", "wellness", "wellness_put", "connect", "get_sleep_data", "commit" }

\* C8: no summary fetch, wellness push or sleep fetch happens before
\* init_api has returned a client; a run whose init_api returned no
\* session ends without any fetch, push or database; and the wellness
\* push for today has been made before the first sleep fetch.
C8_SessionThenPublishThenBackfill ==
    /\ done \cap DataSteps # { } => api # None
    /\ (spo2Requests # << >> \/ requested # << >> \/ icu # PyNone \/ db # "closed") => api # None
    /\ (pc = "exited" /\ api = None) =>
           /\ done \cap DataSteps = { }
           /\ committed = EmptyBag
    /\ "get_sleep_data" \in done => ("wellness_put" \in done /\ icu # PyNone)
    /\ requested # << >> => icu # PyNone

\* a run with a session has pushed today's value and fetched a day
C8_Witness ==
    /\ api # None
    /\ icu # PyNone
    /\ "get_sleep_data" \in done
    /\ requested # << >>

(***************************************************************************)
(* Properties of get_credentials, checked under SpecCred.                  *)
(***************************************************************************)
\* C9: whatever EMAIL and PASSWORD are in the environment, get_credentials
\* returns a pair with both email and password populated, the environment
\* value taking the place of the configured one when it is set, or fails
\* with a missing-credentials error, and in no other way.
C9_PairOrMissingCredentials ==
    "get_credentials" \in done =>
        \/ /\ pc = "login"
           /\ creds.raised = None
           /\ creds.email \notin { Unbound, "" }
           /\ creds.password \notin { Unbound, "" }
           /\ ~ NotGetenv(environ, "EMAIL") => creds.email = environ.EMAIL
           /\ ~ NotGetenv(environ, "PASSWORD") => creds.password = environ.PASSWORD
        \/ /\ pc = "exited"
           /\ exception = "MissingCredentialsError"

(***************************************************************************)
(* The timestamp of a stored reading, checked under SpecStamp.             *)
(***************************************************************************)
\* days from 1970-01-01 to the first of January of year y (y >= 1970),
\* counted year by year
RECURSIVE DaysBeforeYear(_)
DaysBeforeYear(y) ==
    IF y <= 1970 THEN 0 ELSE DaysBeforeYear(y - 1) + (IF IsLeap(y - 1) THEN 366 ELSE 365)
\* days from the first of January to the first of month m, month by month
RECURSIVE DaysBeforeMonth(_, _)
DaysBeforeMonth(y, m) ==
    IF m <= 1 THEN 0 ELSE DaysBeforeMonth(y, m - 1) + DaysInMonth(y, m - 1)
\* the instant of a date and time of day, in whole seconds since the epoch
InstantOf(date, time) ==
    (DaysBeforeYear(date[1]) + DaysBeforeMonth(date[1], date[2]) + date[3] - 1) * 86400
        + time[1] * 3600 + time[2] * 60 + time[3]
\* epoch milliseconds truncated to seconds: the first ten of thirteen digits
EpochSeconds(ts) == NumVal(ts, 1, 10)

\* the run has asked Garmin for today's readings and has ended
StampRunEnded == pc = "exited" /\ requested = << today >>
TodaysStamp == garmin[today].value.items[SleepKey].items[1].epochTimestamp
\* the run stored the reading at this instant, and nothing else
StoredAt(instant) ==
    /\ exception = None
    /\ committed = SetToBag({ << instant, 95, 2 >> })
\* the run ended in the ValueError of the parse, an ordinary Exception, and
\* stored nothing
RejectedStamp ==
    /\ exception = "Exception"
    /\ raisedIn = "populateSpoList"
    /\ committed = EmptyBag

\* C11 as stated: for every timestamp of epoch milliseconds followed by two
\* digits, the stored instant is the one of the string without its last
\* two characters, read as epoch milliseconds and truncated to seconds
C11_EpochMillisInstant ==
    (StampRunEnded /\ TodaysStamp \in EpochStamps)
        => StoredAt(EpochSeconds(StripLastTwo(TodaysStamp)))

\* C11: for every timestamp that is an ISO date and time followed by two
\* characters, the stored instant is the one of that date and time (UTC)
\* in whole seconds, whatever the two characters are; a timestamp of
\* thirteen epoch digits followed by two digits is never read as
\* milliseconds: the run is rejected with ValueError, or, from Python 3.11
\* on, the digits are read as the date and time YYYYMMDD?HHMM
C11_IsoTextInstant ==
    /\ \A d \in IsoDates, t \in IsoTimes, tail \in IsoTails :
         (StampRunEnded /\ TodaysStamp = IsoText(d, t) \o tail) => StoredAt(InstantOf(d, t))
    /\ (StampRunEnded /\ TodaysStamp \in EpochStamps)
         => \/ RejectedStamp
            \/ /\ python # "3.10"
               /\ LET s == TodaysStamp
                  IN  StoredAt(InstantOf(<< NumVal(s, 1, 4), NumVal(s, 5, 6), NumVal(s, 7, 8) >>,
                                         << NumVal(s, 10, 11), NumVal(s, 12, 13), 0 >>))

\* the reading of 2024-01-15T03:12:00.5 is stored at 1705288320; and a
\* run over thirteen epoch digits has stored a reading
C11_Witness ==
    /\ StampRunEnded
    /\ TodaysStamp = IsoText(<< 2024, 1, 15 >>, << 3, 12, 0 >>) \o << ".", "5" >>
    /\ StoredAt(1705288320)
C11_EpochRead ==
    /\ StampRunEnded
    /\ TodaysStamp \in EpochStamps
    /\ exception = None

(***************************************************************************)
(* The run after init_api has returned a client, checked under Spec.       *)
(***************************************************************************)
\* C12: once init_api has returned a client, the run ends only after the
\* final commit of the backfill, whatever the remote calls of display_spo2,
\* spo2wellness and the per-day fetches do
C12_ClientReachesCommit ==
    (pc = "exited" /\ api # None) => "commit" \in done

(***************************************************************************)
(* The credential loop of init_api, checked under Spec.                    *)
(***************************************************************************)
\* the step writes the token store
WritesTokens == tokenstore' # tokenstore \/ ("dump" \in done' /\ "dump" \notin done)
\* the step makes init_api return the client of the credential login
ReturnsCredentialClient == api' = "Garmin(credentials)" /\ api # "Garmin(credentials)"

\* C13: on the credential path init_api returns a client only in the step
\* that has written the session to the token store, and the token store is
\* written only at the dump that follows a login that succeeded, at once
\* or through a successful MFA resume
C13_TokensOnlyAfterLogin ==
    [][ /\ WritesTokens => pc = "dump" /\ session = "authenticated"
        /\ ReturnsCredentialClient
             => pc = "dump" /\ "dump" \in done' /\ tokenstore' = "valid" ]_vars

\* init_api has returned the client of a login completed by an MFA resume,
\* the tokens written
C13_Witness ==
    /\ api = "Garmin(credentials)"
    /\ session = "authenticated"
    /\ { "resume_login", "dump" } \subseteq done
    /\ tokenstore = "valid"

\* how the text of a resume failure reads
Has429(b) == b.exc = "GarthHTTPError" /\ 429 \in b.text.codes
HasTooManyRequests(b) == b.exc = "GarthHTTPError" /\ "Too Many Requests" \in b.text.phrases
Has401Or403(b) == b.exc = "GarthHTTPError" /\ (401 \in b.text.codes \/ 403 \in b.text.codes)
\* what the step leads to
ExitsWith(status) == pc' = "exited" /\ exitCode' = status
BackIntoLoop == pc' = "get_credentials"
ReturnsNoSession == pc' = "main" /\ api' = None

\* C14 as stated: a resume failure that is rate-limited (429) ends the
\* process with status 1, and every resume failure that is neither
\* rate-limited nor invalid-code (401/403) ends it with a non-zero status
C14_OtherResumeFailuresFatal ==
    [][ pc = "resume_login" => \A b \in ResumeBehaviours :
          (ResumeLogin(b) /\ b.exc # None)
            => /\ Has429(b) => ExitsWith(1)
               /\ (~ Has429(b) /\ ~ Has401Or403(b)) => (pc' = "exited" /\ exitCode' # 0) ]_vars

\* C14: a resume failure that is an HTTP error whose text has both 429 and
\* Too Many Requests ends the process with status 1, and so does every
\* other HTTP error whose text has neither 401 nor 403; a resume failure
\* that is not an HTTP error never ends the process with a non-zero
\* status: a GarthException or an authentication error leads back into
\* the login loop, a connection error or an abort signal makes init_api
\* return no session, and any other exception ends the run with status 0
C14_HttpResumeFailuresFatal ==
    [][ pc = "resume_login" => \A b \in ResumeBehaviours :
          (ResumeLogin(b) /\ b.exc # None)
            => /\ (Has429(b) /\ HasTooManyRequests(b)) => ExitsWith(1)
               /\ (b.exc = "GarthHTTPError" /\ ~ Has401Or403(b)) => ExitsWith(1)
               /\ b.exc \in { "GarthException", "GarminConnectAuthenticationError" }
                    => BackIntoLoop
               /\ b.exc \in { "GarminConnectConnectionError", "KeyboardInterrupt" }
                    => ReturnsNoSession
               /\ b.exc = "Exception" => ExitsWith(0) ]_vars

\* the process has ended with status 1 in the MFA resume
C14_Witness ==
    /\ pc = "exited"
    /\ exitCode = 1
    /\ exception = "SystemExit"
    /\ "resume_login" \in done
    /\ "dump" \notin done

\* a resume failure the code takes for a wrong MFA code
InvalidCode(b) == Has401Or403(b) /\ ~ (Has429(b) /\ HasTooManyRequests(b))

\* C15 as stated: after a resume failure with an invalid code the next step
\* is a new MFA prompt for the same pending login, email and password not
\* submitted again and the token store not written
C15_BackToMfaPrompt ==
    [][ pc = "resume_login" => \A b \in ResumeBehaviours :
          (ResumeLogin(b) /\ InvalidCode(b))
            => pc' = "mfa_input" /\ session' = "needs_mfa" /\ tokenstore' = tokenstore ]_vars

\* C15: after a resume failure with an invalid code init_api starts the
\* next iteration of its login loop, the token store not written: the
\* next steps are get_credentials and a login that submits email and
\* password again, and a new MFA prompt is reached only from such a login
\* that asks for MFA; nothing but the outcome of these calls ends the loop
C15_BackToCredentialLogin ==
    [][ /\ pc = "resume_login" => \A b \in ResumeBehaviours :
             (ResumeLogin(b) /\ InvalidCode(b))
               => /\ pc' = "get_credentials"
                  /\ tokenstore' = tokenstore
                  /\ api' = None
                  /\ exitCode' = 0
        /\ (pc = "get_credentials" /\ pc' \notin { pc, "main", "exited" })
             => pc' = "login" /\ attempts' = attempts + 1
        /\ (pc' = "mfa_input" /\ pc # "mfa_input")
             => pc = "login" /\ session' = "needs_mfa" /\ "login(credentials)" \in done' ]_vars

\* a second MFA resume is under way, in the loop iteration after the one
\* whose resume failed: email and password have been submitted again
C15_Witness ==
    /\ pc = "resume_login"
    /\ "resume_login" \in done
    /\ attempts >= 2
    /\ session = "needs_mfa"

\* C16: a credential login rejected with an authentication error makes
\* init_api neither return nor exit nor write the token store: the next
\* step begins another iteration with get_credentials, and an iteration
\* after the first goes on to another login; no count of rejections ends
\* the loop
C16_RejectedLoginRetried ==
    [][ /\ pc = "login" => \A b \in LoginBehaviours :
             (LoginStep(b) /\ b.exc = "GarminConnectAuthenticationError")
               => /\ pc' = "get_credentials"
                  /\ api' = None
                  /\ exitCode' = 0 /\ exception' = None
                  /\ tokenstore' = tokenstore
        /\ (pc = "get_credentials" /\ attempts >= 1 /\ pc' # pc)
             => pc' = "login" /\ attempts' = attempts + 1 ]_vars

\* after a rejected login the next login is under way, as many times as
\* the model lets the loop run
C16_Witness ==
    /\ pc = "login"
    /\ attempts = MaxLoginAttempts
    /\ done = { "login(tokenstore)", "get_credentials", "login(credentials)" }
    /\ session = None
    /\ api = None

\* the connection-level errors: of the HTTP layer, and of the connection
HttpLayerErrors == { "GarthHTTPError", "requests.HTTPError" }
ConnectionLevelErrors == HttpLayerErrors \cup { "GarminConnectConnectionError" }
\* init_api returns no session, the process not ended, no token written
LeavesLoopQuietly ==
    /\ ReturnsNoSession
    /\ exitCode' = 0 /\ exception' = None
    /\ tokenstore' = tokenstore
\* main ends the run at once when it has no client: nothing is fetched
MainEndsWithoutClient ==
    (pc = "main" /\ api = None /\ pc' # pc)
        => /\ pc' = "exited" /\ exitCode' = 0 /\ exception' = None
           /\ done' = done /\ done \cap DataSteps = {}

\* C17 as stated: a connection-level error at any point of the
\* credential login, the MFA resume included, makes init_api return no
\* session without exit and without a token write, and main ends without
\* any fetch
C17_ConnectionErrorAnywhere ==
    [][ /\ pc = "login" => \A b \in LoginBehaviours :
             (LoginStep(b) /\ b.exc \in ConnectionLevelErrors) => LeavesLoopQuietly
        /\ pc = "resume_login" => \A b \in ResumeBehaviours :
             (ResumeLogin(b) /\ b.exc \in ConnectionLevelErrors) => LeavesLoopQuietly
        /\ MainEndsWithoutClient ]_vars

\* C17: a connection-level error raised by the credential login, or a
\* connection error or requests HTTP error raised by the MFA resume, makes
\* init_api return no session without exit and without a token write, and
\* main ends without any fetch; a GarthHTTPError raised by the MFA resume
\* does not: it ends the process with status 1 or leads back into the loop
C17_ConnectionErrorOutsideMfaHandler ==
    [][ /\ pc = "login" => \A b \in LoginBehaviours :
             (LoginStep(b) /\ b.exc \in ConnectionLevelErrors) => LeavesLoopQuietly
        /\ pc = "resume_login" => \A b \in ResumeBehaviours :
             /\ (ResumeLogin(b) /\ b.exc \in ConnectionLevelErrors \ { "GarthHTTPError" })
                  => LeavesLoopQuietly
             /\ (ResumeLogin(b) /\ b.exc = "GarthHTTPError")
                  => ExitsWith(1) \/ BackIntoLoop
        /\ MainEndsWithoutClient ]_vars

\* a run that ended in main after a connection-level error of the MFA
\* resume: no client, nothing fetched, status 0
C17_Witness ==
    /\ pc = "exited"
    /\ api = None
    /\ exitCode = 0 /\ exception = None
    /\ "resume_login" \in done
    /\ "dump" \notin done
    /\ done \cap DataSteps = {}

\* the step ends session acquisition gracefully: the process ends with
\* status 0 at the top-level clause for KeyboardInterrupt, or init_api
\* returns no session; nothing has been fetched, pushed or stored
EndsGracefully ==
    /\ \/ pc' = "exited" /\ exitCode' = 0 /\ caught' = "KeyboardInterrupt"
       \/ ReturnsNoSession /\ exitCode' = 0 /\ exception' = None
    /\ done' \cap DataSteps = {}
    /\ committed' = committed /\ icu' = icu

\* C18: a KeyboardInterrupt raised by the stored-token login, the
\* credential login, the MFA prompt, the MFA resume or the token dump ends
\* the run gracefully: nothing is fetched, pushed or written to the
\* database afterwards, and the process exits with status 0
C18_AbortEndsGracefully ==
    [][ /\ pc = "init_api" => \A b \in TokenLoginBehaviours(tokenstore) :
             (InitApiTokenLogin(b) /\ b.exc = "KeyboardInterrupt") => EndsGracefully
        /\ pc = "login" => \A b \in LoginBehaviours :
             (LoginStep(b) /\ b.exc = "KeyboardInterrupt") => EndsGracefully
        /\ pc = "mfa_input" => \A b \in InputBehaviours :
             (MfaInput(b) /\ b.exc = "KeyboardInterrupt") => EndsGracefully
        /\ pc = "resume_login" => \A b \in ResumeBehaviours :
             (ResumeLogin(b) /\ b.exc = "KeyboardInterrupt") => EndsGracefully
        /\ pc = "dump" => \A b \in DumpBehaviours :
             (DumpTokens(b) /\ b.exc = "KeyboardInterrupt") => EndsGracefully
        /\ MainEndsWithoutClient ]_vars

\* the run was aborted during the stored-token login and has ended with
\* status 0, nothing fetched
C18_Witness ==
    /\ pc = "exited"
    /\ exception = "KeyboardInterrupt"
    /\ raisedIn = "init_api"
    /\ done = { "login(tokenstore)" }
    /\ exitCode = 0

(***************************************************************************)
(* The commit of populateSpoList, checked under SpecIngest.                *)
(***************************************************************************)
\* C19: populateSpoList commits once, in the step after the last day of
\* the range: the committed content of spo2 changes in no other step, and
\* a run that an exception ends inside the loop has committed nothing,
\* the table being what it was before the run
C19_CommitOnceAtEnd ==
    [][ /\ (committed' # committed \/ commits' # commits
              \/ ("commit" \in done' /\ "commit" \notin done))
             => /\ pc = "populate_loop" /\ reqday > today
                /\ Len(requested) = today - startfrom + 1
                /\ "commit" \notin done
                /\ commits' = commits + 1
                /\ committed' = txn
                /\ pc' = "exited" /\ exception' = None
        /\ (pc = "populate_loop" /\ pc' = "exited" /\ exception' # None)
             => /\ reqday <= today
                /\ committed' = committed
                /\ "commit" \notin done' ]_vars

\* a second run over a table the first run filled was ended by an
\* exception inside the loop after it had asked for a day: the table is
\* as the first run committed it
C19_Witness ==
    /\ pc = "exited"
    /\ runs = 2
    /\ exception # None
    /\ raisedIn = "populateSpoList"
    /\ Len(requested) >= 2
    /\ commits = 1
    /\ "commit" \notin done
    /\ committed # EmptyBag

(***************************************************************************)
(* The date of the run, checked under Spec.                                *)
(***************************************************************************)
\* C20: the day display_spo2 asks the summary for is the day of the
\* wellness record spo2wellness reads and sends, and it is the last day
\* of the backfill, also when midnight passes after the process started
C20_OneDateForTheRun ==
    /\ \A i \in DOMAIN spo2Requests : spo2Requests[i] = today
    /\ wellness # PyNone => wellness.id = today
    /\ icu # PyNone => icu.id = today
    /\ \A i \in DOMAIN requested : requested[i] \in startfrom..today

====
